---------------------------- MODULE Spec2Model ----------------------------
(***************************************************************************)
(* A model of the Voice-Bot Adapter of src/src/extras/LexV2Feature.js      *)
(* (class LexV2Feature, the functions decodeResponse and                   *)
(* decodeAndUnzipJsonString, and class LexUtils).                          *)
(*                                                                         *)
(* The adapter runs on one cooperative event loop: every handler below     *)
(* runs to completion, so each handler is one action.  Inside a handler    *)
(* the statements are applied in source order to a local copy `s` of the   *)
(* adapter's fields; `s.log` lists the externally visible steps of the     *)
(* handler (events emitted, remote calls started), each with the value the *)
(* flags had when the step was taken.  The variable `call` keeps the        *)
(* handler that ran last: its name, its input, its steps and what it       *)
(* returned or threw.                                                      *)
(***************************************************************************)
EXTENDS Integers, Sequences, FiniteSets, Bags, TLC

\* ------------------------------------------------------------------ bounds

\* Samples per captured chunk (the script processor delivers 4096).
ChunkLen == 2
\* Chunks one recording may buffer before the model stops delivering more.
MaxBuffered == 2
\* Remote calls that may be awaiting their callback at the same time.
MaxInFlight == 1
\* Calls of enableMicInput over the adapter's lifetime.
MaxNodes == 2
\* Samples of the longest sequence handed to downsampleAudio on its own.
MaxSamples == 4
\* Blocks of audio the capture device produces when each block is followed
\* through every connected node.
MaxBlocks == 2
\* Invocations of the text-generation handler.
MaxInvocations == 3
\* Samples of the longest sequence handed to encodeWAV on its own (the
\* five-sample sequence EncodeScenario is handed to it besides).
MaxEncodeLen == 2

\* ------------------------------------------------------------ value domains

\* JavaScript's undefined, and a typed array holding the samples seq.
Undefined == [kind |-> "undefined"]
Arr(seq) == [kind |-> "array", value |-> seq]

\* A JavaScript number and a JavaScript string holding a number.
Num(v) == [type |-> "number", val |-> v]
Str(v) == [type |-> "string", val |-> v]

\* A sample is the exact rational num/den; a den of 0 is NaN (0/0).
Sample(n, d) == <<n, d>>
Zero == Sample(0, 1)

\* The chunks the capture device can deliver: two distinguishable chunks of
\* ChunkLen samples each.
ChunkIds == {1, -1}
Chunk(k) == [i \in 1..ChunkLen |-> IF i = 1 THEN Sample(k, 1) ELSE Zero]
Chunks == {Chunk(k) : k \in ChunkIds}

\* AudioContext.sampleRate of the device: below, at and above the target.
DeviceRates == {Num(8000), Num(16000), Num(48000)}

\* A base64(gzip(JSON)) string holding the value v, and a string that is not one.
Encoded(v) == [kind |-> "string", valid |-> TRUE, json |-> v]
Plain(v) == [kind |-> "string", valid |-> FALSE, json |-> v]

\* An error object, by its name.
Err(name) == [kind |-> "error", name |-> name]

\* Errors of navigator.mediaDevices.getUserMedia.
MicErrors == {Err("NotAllowedError"), Err("Permission dismissed")}

\* Errors the remote call hands to its callback.
LexErrors == {Err("ResourceNotFoundException"), Err("NetworkingError")}

\* Texts a user may submit.
Texts == {Plain("hello")}

\* A response field that does not decode.
Garbage == Plain("garbage")

\* Raw responses of recognizeUtterance: every field present, the optional
\* fields absent, and a malformed field.
FullResponse ==
    [contentType |-> Plain("text/plain"), sessionState |-> Encoded("SessionState"),
     inputTranscript |-> Encoded("Transcript"), messages |-> Encoded("Messages")]
BareResponse ==
    [contentType |-> Plain("text/plain"), sessionState |-> Encoded("SessionState")]
BadResponse == [contentType |-> Plain("text/plain"), sessionState |-> Garbage]
LexResponses == {FullResponse, BareResponse, BadResponse}

\* The encoded fields of a response and, for each, the states it can be in:
\* not a key of the response, a well-formed encoded string, a string that
\* does not decode, the empty string.
EncodedFields == {"sessionState", "inputTranscript", "messages"}
FieldStates == {"absent", "encoded", "malformed", "empty"}
FieldValue(field, state) ==
    CASE state = "encoded" -> Encoded(field)
      [] state = "malformed" -> Garbage
      [] OTHER -> Plain("")

\* The raw response whose encoded fields are in the states `of`; contentType
\* stands for the fields that are not encoded.
RawResponse(of) ==
    [f \in {"contentType"} \cup {e \in EncodedFields : of[e] # "absent"} |->
        IF f = "contentType" THEN Plain("text/plain") ELSE FieldValue(f, of[f])]
RawResponses == {RawResponse(of) : of \in [EncodedFields -> FieldStates]}

\* The sample sequences downsampleAudio is applied to: every sequence of up
\* to MaxSamples samples out of four values.
SampleValues == {Sample(v, 1) : v \in 1..4}
SampleSeqs == UNION {[1..n -> SampleValues] : n \in 0..MaxSamples}

\* The (source, target) rates downsampleAudio is applied to: the adapter's
\* string target against devices below, at and above it (twice, three times,
\* 2.75625 times and 1.378125 times), and pairs of numbers below, at and above.
RatePairs ==
    {<<Num(8000), Str(16000)>>, <<Num(16000), Str(16000)>>,
     <<Num(32000), Str(16000)>>, <<Num(48000), Str(16000)>>,
     <<Num(44100), Str(16000)>>, <<Num(22050), Str(16000)>>,
     <<Num(8000), Num(16000)>>, <<Num(16000), Num(16000)>>, <<Num(4), Num(2)>>}

\* The samples encodeWAV is applied to: zero, the ends of the range, values
\* inside and outside it, a value whose product with 0x7fff has a fraction
\* above 32767/32768, and NaN.
EncodeSamples ==
    {Sample(0, 1), Sample(1, 2), Sample(-1, 2), Sample(1, 1), Sample(-1, 1),
     Sample(2, 1), Sample(-2, 1), Sample(32769, 65536), Sample(0, 0)}
EncodeScenario ==
    <<Sample(0, 1), Sample(1, 2), Sample(-1, 2), Sample(1, 1), Sample(-1, 1)>>
EncodeSeqs ==
    {EncodeScenario} \cup UNION {[1..n -> EncodeSamples] : n \in 0..MaxEncodeLen}

\* The target rates encodeWAV is applied to: the adapter's string and a number.
EncodeRates == {Str(16000), Num(8000)}

\* ------------------------------------------------------------------- state

VARIABLES
    micReady,     \* this._micReady
    recording,    \* this._recording
    recLength,    \* this._recLength
    recBuffer,    \* this._recBuffer: the chunks pushed, in order
    nodes,        \* script processor nodes whose onaudioprocess is connected
    pendingMic,   \* enableMicInput calls awaiting getUserMedia
    sampleRate,   \* this._audioContext.sampleRate
    inflight,     \* the bag of recognizeUtterance calls awaiting their callback
    session,      \* history: the chunks the callback was handed between the last
                  \* beginVoiceRecording and the endVoiceRecording that followed it
    call,         \* the handler that ran last
    options,      \* history: the options object the constructor was given
    _options,     \* this._options
    listening,    \* whether the demo's initConversationManagement has attached
                  \* its listeners to the adapter
    classList,    \* messageContainerEl.classList of the demo page
    device,       \* the capture device: the blocks it has produced, and the
                  \* audioprocess events of the last block not yet dispatched
    pure          \* a function applied on its own (a LexUtils or decoding
                  \* function, the text-generation handler): its input, and
                  \* once applied its result

vars == <<micReady, recording, recLength, recBuffer, nodes, pendingMic,
          sampleRate, inflight, session, call, options, _options, listening,
          classList, device, pure>>

\* The options chatbotDemo_LexV2.js constructs the adapter with.
botConfig ==
    [botId |-> "KPHJPZUJU1", botAliasId |-> "KJTSJZZJ1E", localeId |-> "en_US"]

\* Utils.createId(): the identifier generated for this adapter.
createId == "createId"

\* The constructor's this._options: a missing (or empty) localeId becomes
\* "en_US", a missing (or empty) sessionId becomes a generated identifier.
constructor(opts) ==
    [botId |-> opts.botId, botAliasId |-> opts.botAliasId,
     localeId |-> IF "localeId" \in DOMAIN opts /\ opts.localeId # ""
                  THEN opts.localeId ELSE "en_US",
     sessionId |-> IF "sessionId" \in DOMAIN opts /\ opts.sessionId # ""
                   THEN opts.sessionId ELSE createId]

\* The options objects the constructor may be given: the demo's bot, with or
\* without a localeId and a sessionId.
ConstructorOptions ==
    {[botId |-> botConfig.botId, botAliasId |-> botConfig.botAliasId]}
    \cup {[botId |-> botConfig.botId, botAliasId |-> botConfig.botAliasId,
            localeId |-> l] : l \in {"en_US", "fr_FR"}}
    \cup {[botId |-> botConfig.botId, botAliasId |-> botConfig.botAliasId,
            sessionId |-> "session-1"]}
    \cup {[botId |-> botConfig.botId, botAliasId |-> botConfig.botAliasId,
            localeId |-> l, sessionId |-> "session-1"] : l \in {"en_US", "fr_FR"}}

\* The capture device before it produced a block.
Silent == [blocks |-> 0, pending |-> 0]

\* No function is under test.
Idle == [phase |-> "idle"]

\* LexV2Feature.LEX_DEFAULTS.SampleRate: the string "16000".
LEX_DEFAULTS_SampleRate == Str(16000)

\* ----------------------------------------------------------------- helpers

RECURSIVE Flatten(_)
\* The chunks of a buffer laid end to end.
Flatten(buf) == IF buf = <<>> THEN <<>> ELSE Head(buf) \o Flatten(Tail(buf))

RECURSIVE SumLen(_)
\* The sum of the lengths of the chunks of a buffer.
SumLen(buf) == IF buf = <<>> THEN 0 ELSE Len(Head(buf)) + SumLen(Tail(buf))

\* Math.round of the non-negative rational a/b (b > 0): halves round up.
Round(a, b) == (2 * a + b) \div (2 * b)

\* What a function call produced: a returned value or a thrown error; what a
\* promise settled to.
Return(v) == [kind |-> "return", value |-> v]
Throw(e) == [kind |-> "throw", value |-> e]
Resolved(v) == [kind |-> "resolved", value |-> v]
Rejected(e) == [kind |-> "rejected", value |-> e]
Pending == [kind |-> "pending", value |-> Undefined]

\* The adapter's fields as the running handler's state `s`, with no step
\* logged, no remote call started and nothing returned yet.
This ==
    [micReady |-> micReady, recording |-> recording, recLength |-> recLength,
     recBuffer |-> recBuffer, session |-> session,
     log |-> <<>>, sent |-> <<>>, ret |-> Return(Undefined)]

\* A visible step of a handler, with the flags as they are when it is taken.
Log(s, op, what, data) ==
    [s EXCEPT !.log = Append(@, [op |-> op, what |-> what, data |-> data,
                                 recording |-> s.recording, micReady |-> s.micReady])]

\* this.emit(event, value): subscribers are notified synchronously.
Emit(s, event, value) == Log(s, "emit", event, value)

\* ------------------------------------------------------- LexUtils (pure)

RECURSIVE SumWindow(_, _, _)
\* accumulator of the inner for loop: buffer[from] + ... + buffer[to - 1]
\* (0-based indices), as the numerator over the samples' denominator 1.
SumWindow(buffer, from, to) ==
    IF from >= to THEN 0 ELSE buffer[from + 1][1] + SumWindow(buffer, from + 1, to)

\* The smaller of two integers.
Min(a, b) == IF a < b THEN a ELSE b

RECURSIVE DownsampleLoopNoAdvance(_, _, _, _, _, _, _)
\* DownsampleLoop with a plausible slip: bufferOffset is not advanced, so
\* every window starts at the first sample.
DownsampleLoopNoAdvance(buffer, p, q, newLength, position, bufferOffset, out) ==
    IF position >= newLength THEN out
    ELSE LET nextBufferOffset == Round((position + 1) * p, q)
             upTo == Min(nextBufferOffset, Len(buffer))
             count == IF upTo > bufferOffset THEN upTo - bufferOffset ELSE 0
             accumulator == SumWindow(buffer, bufferOffset, upTo)
         IN  DownsampleLoopNoAdvance(buffer, p, q, newLength, position + 1,
                                     bufferOffset,
                                     Append(out, Sample(accumulator, count)))

RECURSIVE DownsampleLoopSumOnly(_, _, _, _, _, _, _)
\* DownsampleLoop with a plausible slip: the accumulator is stored without
\* dividing it by count.
DownsampleLoopSumOnly(buffer, p, q, newLength, position, bufferOffset, out) ==
    IF position >= newLength THEN out
    ELSE LET nextBufferOffset == Round((position + 1) * p, q)
             upTo == Min(nextBufferOffset, Len(buffer))
             accumulator == SumWindow(buffer, bufferOffset, upTo)
         IN  DownsampleLoopSumOnly(buffer, p, q, newLength, position + 1,
                                   nextBufferOffset,
                                   Append(out, Sample(accumulator, 1)))

RECURSIVE DownsampleLoopNoIncrement(_, _, _, _, _, _, _)
\* DownsampleLoop with a plausible slip: nextBufferOffset is computed from
\* position instead of position + 1.
DownsampleLoopNoIncrement(buffer, p, q, newLength, position, bufferOffset, out) ==
    IF position >= newLength THEN out
    ELSE LET nextBufferOffset == Round(position * p, q)
             upTo == Min(nextBufferOffset, Len(buffer))
             count == IF upTo > bufferOffset THEN upTo - bufferOffset ELSE 0
             accumulator == SumWindow(buffer, bufferOffset, upTo)
         IN  DownsampleLoopNoIncrement(buffer, p, q, newLength, position + 1,
                                       nextBufferOffset,
                                       Append(out, Sample(accumulator, count)))

RECURSIVE DownsampleWindows(_, _, _, _, _, _, _)
\* The index ranges the inner for loop of downsampleAudio runs over, one per
\* output position: i from bufferOffset while i < nextBufferOffset and
\* i < buffer.length.
DownsampleWindows(bufferLength, p, q, newLength, position, bufferOffset, out) ==
    IF position >= newLength THEN out
    ELSE LET nextBufferOffset == Round((position + 1) * p, q)
         IN  DownsampleWindows(bufferLength, p, q, newLength, position + 1,
                               nextBufferOffset,
                               Append(out, [from |-> bufferOffset,
                                            to |-> Min(nextBufferOffset,
                                                       bufferLength)]))

RECURSIVE DownsampleLoop(_, _, _, _, _, _, _)
\* The while loop of downsampleAudio with sampleRateRatio = p/q: each output
\* is accumulator / count over [bufferOffset, min(nextBufferOffset, length)).
DownsampleLoop(buffer, p, q, newLength, position, bufferOffset, out) ==
    IF position >= newLength THEN out
    ELSE LET nextBufferOffset == Round((position + 1) * p, q)
             upTo == Min(nextBufferOffset, Len(buffer))
             count == IF upTo > bufferOffset THEN upTo - bufferOffset ELSE 0
             accumulator == SumWindow(buffer, bufferOffset, upTo)
         IN  DownsampleLoop(buffer, p, q, newLength, position + 1, nextBufferOffset,
                            Append(out, Sample(accumulator, count)))

\* downsampleAudio with a plausible slip: the check of a source rate below
\* the target is missing.
downsampleAudioNoRateCheck(buffer, sourceSampleRate, targetSampleRate) ==
    IF buffer.kind = "undefined" \/ Len(buffer.value) = 0 THEN Return(Undefined)
    ELSE IF sourceSampleRate = targetSampleRate THEN Return(buffer)
    ELSE LET bufferLength == Len(buffer.value)
             p == sourceSampleRate.val
             q == targetSampleRate.val
             newLength == Round(bufferLength * q, p)
         IN  Return(Arr(DownsampleLoop(buffer.value, p, q, newLength, 0, 0, <<>>)))

\* LexUtils.downsampleAudio(buffer, sourceSampleRate, targetSampleRate).
\* === compares type and value; < and / convert a string to its number.
downsampleAudio(buffer, sourceSampleRate, targetSampleRate) ==
    IF buffer.kind = "undefined" \/ Len(buffer.value) = 0 THEN Return(Undefined)
    ELSE IF sourceSampleRate = targetSampleRate THEN Return(buffer)
    ELSE IF sourceSampleRate.val < targetSampleRate.val
         THEN Throw(Err("Input Sample rate is less than target sample rate"))
    ELSE LET bufferLength == Len(buffer.value)
             p == sourceSampleRate.val
             q == targetSampleRate.val
             newLength == Round(bufferLength * q, p)
         IN  Return(Arr(DownsampleLoop(buffer.value, p, q, newLength, 0, 0, <<>>)))

\* The integer part of the rational a/b (b > 0), as DataView.setInt16 takes it.
Trunc(a, b) == IF a >= 0 THEN a \div b ELSE -((-a) \div b)

\* A number as a signed 16-bit integer (modulo 2^16).
ToInt16(v) == ((v + 32768) % 65536) - 32768

\* _floatTo16BitPCM with a plausible slip: the sample is not clamped, so a
\* scaled value outside the 16-bit range wraps around.
floatTo16BitPCMNoClamp(sample) ==
    LET n == sample[1]
        d == sample[2]
    IN  IF d = 0 THEN 0
        ELSE IF n < 0 THEN ToInt16(Trunc(n * 32768, d))
        ELSE ToInt16(Trunc(n * 32767, d))

\* One iteration of _floatTo16BitPCM: clamp to [-1, 1], scale, store. NaN
\* passes Math.max/Math.min unchanged and is stored as 0.
floatTo16BitPCM(sample) ==
    LET n == sample[1]
        d == sample[2]
    IN  IF d = 0 THEN 0
        ELSE IF n < -d THEN ToInt16(-32768)
        ELSE IF n > d THEN ToInt16(32767)
        ELSE IF n < 0 THEN ToInt16(Trunc(n * 32768, d))
        ELSE ToInt16(Trunc(n * 32767, d))

\* encodeWAV with a plausible slip: the data length is written in samples,
\* not in bytes.
encodeWAVDataLengthInSamples(buffer, targetSampleRate) ==
    IF buffer.kind = "undefined" THEN Undefined
    ELSE LET n == Len(buffer.value) IN
         [kind |-> "view", byteLength |-> 44 + n * 2,
          riff |-> "RIFF", riffSize |-> 32 + n * 2,
          wave |-> "WAVE", fmt |-> "fmt ", fmtSize |-> 16, format |-> 1,
          channels |-> 1, sampleRate |-> targetSampleRate.val,
          byteRate |-> targetSampleRate.val * 2,
          blockAlign |-> 2, bitsPerSample |-> 16,
          data |-> "data", dataSize |-> n,
          pcm |-> [i \in 1..n |-> floatTo16BitPCM(buffer.value[i])]]

\* LexUtils.encodeWAV(buffer, targetSampleRate): the DataView, field by field.
\* setUint32 stores its value modulo 2^32; every value stored here is below
\* 2^31, so each field holds the value itself.
encodeWAV(buffer, targetSampleRate) ==
    IF buffer.kind = "undefined" THEN Undefined
    ELSE LET n == Len(buffer.value) IN
         [kind |-> "view", byteLength |-> 44 + n * 2,
          riff |-> "RIFF", riffSize |-> 32 + n * 2,
          wave |-> "WAVE", fmt |-> "fmt ", fmtSize |-> 16, format |-> 1,
          channels |-> 1, sampleRate |-> targetSampleRate.val,
          byteRate |-> targetSampleRate.val * 2,
          blockAlign |-> 2, bitsPerSample |-> 16,
          data |-> "data", dataSize |-> n * 2,
          pcm |-> [i \in 1..n |-> floatTo16BitPCM(buffer.value[i])]]

\* _writeString: the character codes of the four tags written.
CharCodes(string) ==
    CASE string = "RIFF" -> <<82, 73, 70, 70>>
      [] string = "WAVE" -> <<87, 65, 86, 69>>
      [] string = "fmt " -> <<102, 109, 116, 32>>
      [] string = "data" -> <<100, 97, 116, 97>>

\* DataView.setUint32, setUint16 and setInt16 with littleEndian = true: the
\* bytes stored, lowest first.
SetUint32(v) ==
    <<v % 256, (v \div 256) % 256, (v \div 65536) % 256, (v \div 16777216) % 256>>
SetUint16(v) == <<v % 256, (v \div 256) % 256>>
SetInt16(v) == SetUint16((v + 65536) % 65536)

\* The bytes of the ArrayBuffer behind the view encodeWAV returns: the writes
\* in the order of their offsets 0, 4, 8, 12, 16, 20, 22, 24, 28, 32, 34, 36,
\* 40, and from 44 on two bytes per sample.
ViewBytes(view) ==
    CharCodes(view.riff) \o SetUint32(view.riffSize) \o CharCodes(view.wave)
    \o CharCodes(view.fmt) \o SetUint32(view.fmtSize) \o SetUint16(view.format)
    \o SetUint16(view.channels) \o SetUint32(view.sampleRate)
    \o SetUint32(view.byteRate) \o SetUint16(view.blockAlign)
    \o SetUint16(view.bitsPerSample) \o CharCodes(view.data)
    \o SetUint32(view.dataSize)
    \o Flatten([i \in 1..Len(view.pcm) |-> SetInt16(view.pcm[i])])

\* new Blob([part]): a part that is not binary data is converted to a string.
Blob(part) ==
    IF part.kind = "undefined"
    THEN [kind |-> "blob", size |-> 9, text |-> "undefined", view |-> Undefined]
    ELSE [kind |-> "blob", size |-> part.byteLength, text |-> "", view |-> part]

\* LexV2Feature._prepareAudio(audioBuffer, sourceSampleRate).
_prepareAudio(audioBuffer, sourceSampleRate) ==
    LET downsampledAudio ==
            downsampleAudio(audioBuffer, sourceSampleRate, LEX_DEFAULTS_SampleRate)
    IN  IF downsampledAudio.kind = "throw" THEN downsampledAudio
        ELSE Return(Blob(encodeWAV(downsampledAudio.value, LEX_DEFAULTS_SampleRate)))

\* ------------------------------------------------------ response decoding

\* decodeAndUnzipJsonString(encodedString): atob, pako.inflate, JSON.parse.
decodeAndUnzipJsonString(encodedString) ==
    IF encodedString.kind = "undefined" THEN Return(Undefined)
    ELSE IF encodedString.valid THEN Return([kind |-> "json", json |-> encodedString.json])
    ELSE Throw(Err("decode error"))

\* lexResponse[field], undefined when the key is absent.
Get(lexResponse, field) ==
    IF field \in DOMAIN lexResponse THEN lexResponse[field] ELSE Undefined

\* Whether `if (value)` takes the branch: undefined and "" are falsy.
Truthy(value) == value.kind # "undefined" /\ value # Plain("")

\* object[field] = value: the key is added when the object lacks it.
Assign(object, field, value) ==
    [f \in DOMAIN object \cup {field} |-> IF f = field THEN value ELSE object[f]]

\* decodeResponse with a plausible slip: decodedResponse is the object
\* lexResponse itself, not a copy, so each assignment also lands in the input.
DecodeIntoAliased(st, field) ==
    IF st.thrown # Undefined THEN st
    ELSE LET decoded == decodeAndUnzipJsonString(Get(st.lexResponse, field)) IN
         IF decoded.kind = "throw" THEN [st EXCEPT !.thrown = decoded.value]
         ELSE [st EXCEPT !.decodedResponse = Assign(@, field, decoded.value),
                         !.lexResponse = Assign(@, field, decoded.value)]

\* decodedResponse[field] = decodeAndUnzipJsonString(lexResponse[field]) on the
\* two objects st.lexResponse and st.decodedResponse; an error thrown by the
\* decoding ends the function.
DecodeInto(st, field) ==
    IF st.thrown # Undefined THEN st
    ELSE LET decoded == decodeAndUnzipJsonString(Get(st.lexResponse, field)) IN
         IF decoded.kind = "throw" THEN [st EXCEPT !.thrown = decoded.value]
         ELSE [st EXCEPT !.decodedResponse = Assign(@, field, decoded.value)]

\* The statements of decodeResponse(lexResponse) in order: the spread copy,
\* the unconditional sessionState assignment, the two guarded assignments.
\* The result holds both objects as the function leaves them.
decodeResponseRun(lexResponse) ==
    LET st0 == [lexResponse |-> lexResponse, decodedResponse |-> lexResponse,
                thrown |-> Undefined]
        st1 == DecodeInto(st0, "sessionState")
        st2 == IF Truthy(Get(st1.lexResponse, "inputTranscript"))
               THEN DecodeInto(st1, "inputTranscript") ELSE st1
    IN  IF Truthy(Get(st2.lexResponse, "messages"))
        THEN DecodeInto(st2, "messages") ELSE st2

\* decodeResponse(lexResponse): what it returns or throws.
decodeResponse(lexResponse) ==
    LET st == decodeResponseRun(lexResponse) IN
    IF st.thrown # Undefined THEN Throw(st.thrown) ELSE Return(st.decodedResponse)

\* ------------------------------------------------- LexV2Feature (methods)
\* Each method maps the running handler's state s to the state it leaves.

\* The Error the catch handler of _process throws in place of `error`.
WrappedError(error) ==
    [kind |-> "error", name |-> "Error happened during voice recording",
     cause |-> error]

\* LexV2Feature._process(contentType, inputStream), up to the remote call:
\* the params are built and recognizeUtterance is called; the promise is
\* returned unsettled. `audio` keeps the samples the payload was made from.
_process(s, contentType, inputStream, audio) ==
    LET params == [botId |-> _options.botId, botAliasId |-> _options.botAliasId,
                   localeId |-> _options.localeId, sessionId |-> _options.sessionId,
                   requestContentType |-> contentType,
                   responseContentType |-> "text/plain;charset=utf-8",
                   inputStream |-> inputStream]
        s1 == Log(s, "call", "recognizeUtterance", params)
    IN  [s1 EXCEPT !.sent = Append(@, [params |-> params, audio |-> audio]),
                   !.ret = Pending]

\* _processSettle with a plausible slip: the completion handler also clears
\* the adapter's sample buffer.
_processSettleResetsBuffer(s, error, data) ==
    [s EXCEPT !.recBuffer = <<>>, !.recLength = 0,
              !.ret = IF error.kind # "undefined" THEN Rejected(WrappedError(error))
                      ELSE Resolved(data)]

\* _processSettle with a plausible slip: the catch handler logs the error but
\* does not throw, so the promise resolves.
_processSettleCatchNoRethrow(s, error, data) ==
    IF error.kind # "undefined"
    THEN [Log(s, "call", "console.error", error) EXCEPT !.ret = Resolved(Undefined)]
    ELSE LET decodedResponse == decodeResponse(data) IN
         IF decodedResponse.kind = "throw"
         THEN [Log(s, "call", "console.error", decodedResponse.value) EXCEPT
                   !.ret = Resolved(Undefined)]
         ELSE [Emit(s, "lexResponseReady", decodedResponse.value) EXCEPT
                   !.ret = Resolved(data)]

\* The promise chain of _process, run when recognizeUtterance calls back with
\* (error, data): reject and catch, or resolve, decode, emit and return.
_processSettle(s, error, data) ==
    IF error.kind # "undefined"
    THEN [Log(s, "call", "console.error", error) EXCEPT
              !.ret = Rejected(WrappedError(error))]
    ELSE LET decodedResponse == decodeResponse(data) IN
         IF decodedResponse.kind = "throw"
         THEN [Log(s, "call", "console.error", decodedResponse.value) EXCEPT
                   !.ret = Rejected(WrappedError(decodedResponse.value))]
         ELSE [Emit(s, "lexResponseReady", decodedResponse.value) EXCEPT
                   !.ret = Resolved(data)]

\* The default of the parameter `config` of _processWithAudio: {}.
DefaultConfig == <<>>

\* The config objects a caller may hand to _processWithAudio: none, one
\* naming another locale, one naming another bot and session.
Configs ==
    {DefaultConfig, [localeId |-> "de_DE"],
     [botId |-> "OTHERBOT", botAliasId |-> "OTHERALIAS", localeId |-> "de_DE",
      sessionId |-> "session-2"]}

\* _processWithAudio with a plausible slip: the fields of config replace the
\* fields of the same name in the request.
_processWithAudioConfigOverrides(s, inputAudio, sourceSampleRate, config) ==
    LET audio == _prepareAudio(inputAudio, sourceSampleRate) IN
    IF audio.kind = "throw" THEN [s EXCEPT !.ret = audio]
    ELSE LET s1 == _process(s, "audio/x-l16; rate=16000", audio.value, inputAudio)
             sent == s1.sent[Len(s1.sent)]
             params == [f \in DOMAIN sent.params |->
                           IF f \in DOMAIN config THEN config[f] ELSE sent.params[f]]
         IN  [s1 EXCEPT !.sent = Append(s.sent, [sent EXCEPT !.params = params])]

\* LexV2Feature._processWithAudio(inputAudio, sourceSampleRate, config): an
\* error thrown by _prepareAudio leaves the method before _process is called.
\* config is handed to _process as a third argument, which _process does not
\* declare and never reads.
_processWithAudio(s, inputAudio, sourceSampleRate, config) ==
    LET audio == _prepareAudio(inputAudio, sourceSampleRate) IN
    IF audio.kind = "throw" THEN [s EXCEPT !.ret = audio]
    ELSE _process(s, "audio/x-l16; rate=16000", audio.value, inputAudio)

\* LexV2Feature.processWithText(inputText).
processWithText(s, inputText) ==
    _process(s, "text/plain; charset=utf-8", inputText, Undefined)

\* onaudioprocess with a plausible slip: the chunk is put in front of the
\* buffer (unshift) instead of behind it (push).
onaudioprocessPrepend(s, buffer) ==
    IF ~s.recording THEN s
    ELSE [s EXCEPT !.recBuffer = <<buffer>> \o @, !.recLength = @ + Len(buffer)]

\* The callback enableMicInput installs as node.onaudioprocess, handed the
\* channel data `buffer`.
onaudioprocess(s, buffer) ==
    IF ~s.recording THEN s
    ELSE LET s1 == [s EXCEPT !.recBuffer = Append(@, buffer)]
         IN  [s1 EXCEPT !.recLength = @ + Len(buffer)]

\* beginVoiceRecording with a plausible slip: _recLength is not reset.
beginVoiceRecordingKeepLength(s) ==
    IF ~s.micReady THEN s
    ELSE Emit([s EXCEPT !.recBuffer = <<>>, !.recording = TRUE], "recordBegin", Undefined)

\* beginVoiceRecording with a plausible slip: the microphone-ready guard is
\* missing.
beginVoiceRecordingNoGuard(s) ==
    Emit([s EXCEPT !.recLength = 0, !.recBuffer = <<>>, !.recording = TRUE],
         "recordBegin", Undefined)

\* LexV2Feature.beginVoiceRecording().
beginVoiceRecording(s) ==
    IF ~s.micReady THEN s
    ELSE LET s1 == [s EXCEPT !.recLength = 0]
             s2 == [s1 EXCEPT !.recBuffer = <<>>]
             s3 == [s2 EXCEPT !.recording = TRUE]
         IN  Emit(s3, "recordBegin", Undefined)

\* The Float32Array endVoiceRecording fills: recLength zeros, then each chunk
\* set at its offset.
ConcatResult(length, buffer) ==
    LET flat == Flatten(buffer)
    IN  [i \in 1..length |-> IF i <= Len(flat) THEN flat[i] ELSE Zero]

\* endVoiceRecording with a plausible slip: the recording flag is cleared last,
\* after the buffer was read and the audio submitted.
endVoiceRecordingLateStop(s, contextSampleRate) ==
    IF ~s.recording THEN [s EXCEPT !.ret = Resolved(Undefined)]
    ELSE LET result == Arr(ConcatResult(s.recLength, s.recBuffer))
             s2 == Log(s, "read", "recBuffer", result)
             s3 == Emit(s2, "recordEnd", Undefined)
             s4 == _processWithAudio(s3, result, contextSampleRate, DefaultConfig)
         IN  [s4 EXCEPT !.recording = FALSE]

\* endVoiceRecording with a plausible slip: the not-recording guard is missing.
endVoiceRecordingNoGuard(s, contextSampleRate) ==
    LET s1 == [s EXCEPT !.recording = FALSE]
        result == Arr(ConcatResult(s1.recLength, s1.recBuffer))
        s2 == Log(s1, "read", "recBuffer", result)
        s3 == Emit(s2, "recordEnd", Undefined)
    IN  _processWithAudio(s3, result, contextSampleRate, DefaultConfig)

\* LexV2Feature.endVoiceRecording().
endVoiceRecording(s, contextSampleRate) ==
    IF ~s.recording THEN [s EXCEPT !.ret = Resolved(Undefined)]
    ELSE LET s1 == [s EXCEPT !.recording = FALSE]
             result == Arr(ConcatResult(s1.recLength, s1.recBuffer))
             s2 == Log(s1, "read", "recBuffer", result)
             s3 == Emit(s2, "recordEnd", Undefined)
         IN  _processWithAudio(s3, result, contextSampleRate, DefaultConfig)

\* LexV2Feature.enableMicInput() after getUserMedia resolved: the node is
\* created and connected, micReady is emitted, the flag is set. A subscriber
\* of micReady may call beginVoiceRecording from its listener.
enableMicInputResume(s, subscriberBegins) ==
    LET s1 == Log(s, "call", "connect", Undefined)
        s2 == Emit(s1, "micReady", Undefined)
        s3 == IF subscriberBegins THEN beginVoiceRecording(s2) ELSE s2
    IN  [s3 EXCEPT !.micReady = TRUE, !.ret = Resolved(Undefined)]

\* enableMicInput with a plausible slip: the rejection is caught and the
\* method goes on as if the stream had been acquired.
enableMicInputFailSwallowed(s, error) ==
    [Emit(s, "micReady", Undefined) EXCEPT !.micReady = TRUE,
                                           !.ret = Resolved(Undefined)]

\* LexV2Feature.enableMicInput() when getUserMedia rejected with `error`: the
\* await throws it out of the async function.
enableMicInputFail(s, error) == [s EXCEPT !.ret = Rejected(error)]

\* ----------------------------------------------------------------- actions

\* The history of the recording session: opened by a beginVoiceRecording
\* that finds the microphone ready, closed by endVoiceRecording, and holding
\* every chunk the callback is handed while it is open.
SessionBegin(s) ==
    IF s.micReady THEN [s EXCEPT !.session = [open |-> TRUE, chunks |-> <<>>]] ELSE s
SessionEnd(s) == [s EXCEPT !.session.open = FALSE]
SessionChunk(s, buffer) ==
    IF s.session.open THEN [s EXCEPT !.session.chunks = Append(@, buffer)] ELSE s

\* The demo's listeners (chatbotDemo_LexV2.js): recordBegin hides the user
\* message, recordEnd shows the processing message, lexResponseReady removes
\* it and shows the transcript. The fourth listener is attached to
\* EVENTS.lexError, an event the adapter does not define and never emits.
Listener(classes, step) ==
    IF step.op # "emit" THEN classes
    ELSE CASE step.what = "recordBegin" -> classes \ {"showingMessage"}
           [] step.what = "recordEnd" -> classes \cup {"processing"}
           [] step.what = "lexResponseReady" ->
                  (classes \ {"processing"}) \cup {"showingMessage"}
           [] OTHER -> classes

RECURSIVE Dispatch(_, _)
\* The class list after the listeners ran for every event of a handler's
\* steps, in the order of emission.
Dispatch(classes, steps) ==
    IF steps = <<>> THEN classes
    ELSE Dispatch(Listener(classes, Head(steps)), Tail(steps))

\* The handler op(arg) ran from the current state and left s.
Ran(op, arg, s) ==
    /\ micReady' = s.micReady
    /\ recording' = s.recording
    /\ recLength' = s.recLength
    /\ recBuffer' = s.recBuffer
    /\ session' = s.session
    /\ inflight' = inflight (+) SetToBag({s.sent[k] : k \in 1..Len(s.sent)})
    /\ call' = [op |-> op, arg |-> arg, steps |-> s.log, ret |-> s.ret]
    /\ classList' = IF listening THEN Dispatch(classList, s.log) ELSE classList
    /\ UNCHANGED <<options, _options, listening, pure>>

Init ==
    /\ micReady = FALSE
    /\ recording = FALSE
    /\ recLength = 0
    /\ recBuffer = <<>>
    /\ nodes = 0
    /\ pendingMic = 0
    /\ sampleRate \in DeviceRates
    /\ inflight = EmptyBag
    /\ session = [open |-> FALSE, chunks |-> <<>>]
    /\ call = [op |-> "constructor", arg |-> Undefined, steps |-> <<>>,
               ret |-> Return(Undefined)]
    /\ options = botConfig
    /\ _options = constructor(options)
    /\ listening = FALSE
    /\ classList = {}
    /\ device = Silent
    /\ pure = Idle

\* A caller invokes enableMicInput(): it awaits getUserMedia.
CallEnableMicInput ==
    /\ nodes + pendingMic < MaxNodes
    /\ pendingMic' = pendingMic + 1
    /\ Ran("enableMicInput", Undefined,
           [Log(This, "call", "getUserMedia", Undefined) EXCEPT !.ret = Pending])
    /\ UNCHANGED <<nodes, sampleRate, device>>

\* getUserMedia resolves with a stream: enableMicInput continues.
GetUserMediaResolves(subscriberBegins) ==
    /\ pendingMic > 0
    /\ pendingMic' = pendingMic - 1
    /\ nodes' = nodes + 1
    /\ Ran("enableMicInput.resume", [kind |-> "listener", begins |-> subscriberBegins],
           enableMicInputResume(
               IF subscriberBegins THEN SessionBegin(This) ELSE This,
               subscriberBegins))
    /\ UNCHANGED <<sampleRate, device>>

\* getUserMedia rejects: enableMicInput rejects.
GetUserMediaRejects(error) ==
    /\ pendingMic > 0
    /\ pendingMic' = pendingMic - 1
    /\ Ran("enableMicInput.fail", error, enableMicInputFail(This, error))
    /\ UNCHANGED <<nodes, sampleRate, device>>

\* The talk button goes down: beginVoiceRecording().
CallBeginVoiceRecording ==
    /\ Ran("beginVoiceRecording", Undefined, beginVoiceRecording(SessionBegin(This)))
    /\ UNCHANGED <<nodes, pendingMic, sampleRate, device>>

\* A connected node fires audioprocess with the chunk `buffer`.
AudioProcess(buffer) ==
    /\ nodes > 0
    /\ recording => Len(recBuffer) < MaxBuffered
    /\ Ran("onaudioprocess", Arr(buffer), onaudioprocess(SessionChunk(This, buffer), buffer))
    /\ UNCHANGED <<nodes, pendingMic, sampleRate, device>>

\* The talk button goes up: endVoiceRecording().
CallEndVoiceRecording ==
    /\ recording => BagCardinality(inflight) < MaxInFlight
    /\ Ran("endVoiceRecording", Undefined,
           endVoiceRecording(SessionEnd(This), sampleRate))
    /\ UNCHANGED <<nodes, pendingMic, sampleRate, device>>

\* A caller submits text: processWithText(inputText).
CallProcessWithText(inputText) ==
    /\ BagCardinality(inflight) < MaxInFlight
    /\ Ran("processWithText", inputText, processWithText(This, inputText))
    /\ UNCHANGED <<nodes, pendingMic, sampleRate, device>>

\* The remote call `request` calls back with (error, data); its promise settles.
RecognizeUtteranceCallback(request, error, data) ==
    /\ BagIn(request, inflight)
    /\ LET s == _processSettle(This, error, data) IN
       /\ micReady' = s.micReady
       /\ recording' = s.recording
       /\ recLength' = s.recLength
       /\ recBuffer' = s.recBuffer
       /\ session' = s.session
       /\ inflight' = inflight (-) SetToBag({request})
       /\ call' = [op |-> "recognizeUtterance.callback",
                   arg |-> [requestContentType |-> request.params.requestContentType,
                            error |-> error, data |-> data],
                   steps |-> s.log, ret |-> s.ret]
       /\ classList' = IF listening THEN Dispatch(classList, s.log) ELSE classList
    /\ UNCHANGED <<nodes, pendingMic, sampleRate, options, _options, listening,
                   device, pure>>

Next ==
    \/ CallEnableMicInput
    \/ \E subscriberBegins \in BOOLEAN : GetUserMediaResolves(subscriberBegins)
    \/ \E error \in MicErrors : GetUserMediaRejects(error)
    \/ CallBeginVoiceRecording
    \/ \E buffer \in Chunks : AudioProcess(buffer)
    \/ CallEndVoiceRecording
    \/ \E inputText \in Texts : CallProcessWithText(inputText)
    \/ \E request \in BagToSet(inflight), error \in LexErrors :
          RecognizeUtteranceCallback(request, error, Undefined)
    \/ \E request \in BagToSet(inflight), data \in LexResponses :
          RecognizeUtteranceCallback(request, Undefined, data)

Spec == Init /\ [][Next]_vars

\* ------------------------------------------------ the adapter in the demo

\* The adapter as createScene leaves it: constructed with botConfig, the
\* listeners of initConversationManagement attached.
InitDemo ==
    /\ micReady = FALSE
    /\ recording = FALSE
    /\ recLength = 0
    /\ recBuffer = <<>>
    /\ nodes = 0
    /\ pendingMic = 0
    /\ sampleRate \in DeviceRates
    /\ inflight = EmptyBag
    /\ session = [open |-> FALSE, chunks |-> <<>>]
    /\ call = [op |-> "constructor", arg |-> Undefined, steps |-> <<>>,
               ret |-> Return(Undefined)]
    /\ options = botConfig
    /\ _options = constructor(options)
    /\ listening = TRUE
    /\ classList = {}
    /\ device = Silent
    /\ pure = Idle

SpecDemo == InitDemo /\ [][Next]_vars

\* --------------------------------------- blocks followed through the nodes

\* The capture device produces a block of ChunkLen samples: every connected
\* script processor node gets an audioprocess event for it. Block k starts
\* with the sample k, so that no two blocks hold the same samples.
DeviceDelivers ==
    /\ nodes > 0
    /\ device.pending = 0
    /\ device.blocks < MaxBlocks
    /\ device' = [blocks |-> device.blocks + 1, pending |-> nodes]
    /\ UNCHANGED <<micReady, recording, recLength, recBuffer, nodes, pendingMic,
                   sampleRate, inflight, session, call, options, _options,
                   listening, classList, pure>>

\* One of the audioprocess events of the last block is dispatched: the
\* node's onaudioprocess runs on the block.
NodeFires ==
    /\ device.pending > 0
    /\ device' = [device EXCEPT !.pending = @ - 1]
    /\ Ran("onaudioprocess", Arr(Chunk(device.blocks)),
           onaudioprocess(SessionChunk(This, Chunk(device.blocks)),
                          Chunk(device.blocks)))
    /\ UNCHANGED <<nodes, pendingMic, sampleRate>>

\* The adapter with the capture device followed block by block.
NextDevice ==
    \/ CallEnableMicInput
    \/ \E subscriberBegins \in BOOLEAN : GetUserMediaResolves(subscriberBegins)
    \/ CallBeginVoiceRecording
    \/ DeviceDelivers
    \/ NodeFires
    \/ CallEndVoiceRecording
    \/ \E request \in BagToSet(inflight), data \in LexResponses :
          RecognizeUtteranceCallback(request, Undefined, data)

SpecDevice == Init /\ [][NextDevice]_vars

\* ----------------------------------------- requests of any constructed adapter

\* The adapter after new LexV2Feature(lexRuntime, options), for any options.
InitConfig ==
    /\ micReady = FALSE
    /\ recording = FALSE
    /\ recLength = 0
    /\ recBuffer = <<>>
    /\ nodes = 0
    /\ pendingMic = 0
    /\ sampleRate \in DeviceRates
    /\ inflight = EmptyBag
    /\ session = [open |-> FALSE, chunks |-> <<>>]
    /\ call = [op |-> "constructor", arg |-> Undefined, steps |-> <<>>,
               ret |-> Return(Undefined)]
    /\ options \in ConstructorOptions
    /\ _options = constructor(options)
    /\ listening = FALSE
    /\ classList = {}
    /\ device = Silent
    /\ pure = Idle

\* A caller submits audio: _processWithAudio(inputAudio, sourceSampleRate, config).
CallProcessWithAudio(inputAudio, config) ==
    /\ BagCardinality(inflight) < MaxInFlight
    /\ Ran("_processWithAudio", [inputAudio |-> inputAudio, config |-> config],
           _processWithAudio(This, inputAudio, sampleRate, config))
    /\ UNCHANGED <<nodes, pendingMic, sampleRate, device>>

NextConfig ==
    \/ \E inputText \in Texts : CallProcessWithText(inputText)
    \/ \E buffer \in Chunks, config \in Configs :
          CallProcessWithAudio(Arr(buffer), config)
    \/ \E request \in BagToSet(inflight), error \in LexErrors :
          RecognizeUtteranceCallback(request, error, Undefined)
    \/ \E request \in BagToSet(inflight), data \in LexResponses :
          RecognizeUtteranceCallback(request, Undefined, data)

SpecConfig == InitConfig /\ [][NextConfig]_vars

\* ------------------------------------------- functions applied to inputs

\* The adapter as constructed by the demo, at rest: what the specifications
\* below keep fixed while a function is applied to an input.
AtRest ==
    /\ micReady = FALSE
    /\ recording = FALSE
    /\ recLength = 0
    /\ recBuffer = <<>>
    /\ nodes = 0
    /\ pendingMic = 0
    /\ sampleRate = Num(16000)
    /\ inflight = EmptyBag
    /\ session = [open |-> FALSE, chunks |-> <<>>]
    /\ call = [op |-> "constructor", arg |-> Undefined, steps |-> <<>>,
               ret |-> Return(Undefined)]
    /\ options = botConfig
    /\ _options = constructor(options)
    /\ listening = FALSE
    /\ classList = {}
    /\ device = Silent

adapter == <<micReady, recording, recLength, recBuffer, nodes, pendingMic,
             sampleRate, inflight, session, call, options, _options,
             listening, classList, device>>

\* A raw response is at hand.
InitDecode ==
    /\ AtRest
    /\ \E lexResponse \in RawResponses :
          pure = [phase |-> "input", lexResponse |-> lexResponse]

\* decodeResponse(lexResponse) is called: `lexResponse` is the caller's object
\* after the call, `input` what it held before.
ApplyDecodeResponse ==
    /\ pure.phase = "input"
    /\ LET st == decodeResponseRun(pure.lexResponse) IN
       pure' = [phase |-> "decoded", input |-> pure.lexResponse,
                lexResponse |-> st.lexResponse,
                result |-> decodeResponse(pure.lexResponse)]
    /\ UNCHANGED adapter

\* The remote call succeeds with the raw response: the promise chain of
\* _process runs on it.
SettleWithResponse ==
    /\ pure.phase = "input"
    /\ LET s == _processSettle(This, Undefined, pure.lexResponse) IN
       pure' = [phase |-> "settled", input |-> pure.lexResponse,
                steps |-> s.log, ret |-> s.ret]
    /\ UNCHANGED adapter

\* A sample sequence and a pair of rates are at hand.
InitDownsample ==
    /\ AtRest
    /\ \E samples \in SampleSeqs, rates \in RatePairs :
          pure = [phase |-> "input", buffer |-> Arr(samples),
                  sourceSampleRate |-> rates[1], targetSampleRate |-> rates[2]]

\* downsampleAudio(buffer, sourceSampleRate, targetSampleRate) is called.
ApplyDownsampleAudio ==
    /\ pure.phase = "input"
    /\ pure' = [phase |-> "downsampled", buffer |-> pure.buffer,
                sourceSampleRate |-> pure.sourceSampleRate,
                targetSampleRate |-> pure.targetSampleRate,
                result |-> downsampleAudio(pure.buffer, pure.sourceSampleRate,
                                           pure.targetSampleRate)]
    /\ UNCHANGED adapter

\* The adapter submits the sequence as audio captured at the source rate:
\* _processWithAudio(buffer, sourceSampleRate), whose target is
\* LEX_DEFAULTS.SampleRate.
SubmitAudio ==
    /\ pure.phase = "input"
    /\ pure.targetSampleRate = LEX_DEFAULTS_SampleRate
    /\ LET s == _processWithAudio(This, pure.buffer, pure.sourceSampleRate,
                                  DefaultConfig) IN
       pure' = [phase |-> "submitted", buffer |-> pure.buffer,
                sourceSampleRate |-> pure.sourceSampleRate,
                steps |-> s.log, sent |-> s.sent, ret |-> s.ret]
    /\ UNCHANGED adapter

NextDownsample == ApplyDownsampleAudio \/ SubmitAudio

SpecDownsample == InitDownsample /\ [][NextDownsample]_vars

\* A sample sequence and a target rate are at hand.
InitEncode ==
    /\ AtRest
    /\ \E samples \in EncodeSeqs, rate \in EncodeRates :
          pure = [phase |-> "input", buffer |-> Arr(samples),
                  targetSampleRate |-> rate]

\* encodeWAV(buffer, targetSampleRate) is called: `bytes` is the content of
\* the buffer behind the view it returns.
ApplyEncodeWAV ==
    /\ pure.phase = "input"
    /\ pure' = [phase |-> "encoded", buffer |-> pure.buffer,
                targetSampleRate |-> pure.targetSampleRate,
                bytes |-> ViewBytes(encodeWAV(pure.buffer, pure.targetSampleRate))]
    /\ UNCHANGED adapter

NextEncode == ApplyEncodeWAV

SpecEncode == InitEncode /\ [][NextEncode]_vars

\* ------------------------------------- the text-generation handler (part_000)

\* JavaScript's null.
Null == [kind |-> "null"]

\* The events the function is invoked with: a userPrompt among the query
\* parameters, query parameters without a userPrompt, queryStringParameters
\* null (a request without query string), and no such key at all.
Prompts == {"hello", "tell me a joke", ""}
QueryString(params) == [kind |-> "object", params |-> params]
Events ==
    {[queryStringParameters |-> QueryString([userPrompt |-> prompt])] :
         prompt \in Prompts}
    \cup {[queryStringParameters |-> QueryString(<<>>)],
           [queryStringParameters |-> Null],
           [queryStringParameters |-> Undefined]}

\* What invokeModel resolves with: a body that is JSON with a completion, JSON
\* without one, or not JSON; and the errors it rejects with.
Completions == {"Hi!", "Why did the chicken cross the road?", ""}
JsonBody(value) == [kind |-> "body", json |-> TRUE, value |-> value]
ModelBodies ==
    {JsonBody([completion |-> completion]) : completion \in Completions}
    \cup {JsonBody(<<>>), [kind |-> "body", json |-> FALSE, value |-> <<>>]}
ModelErrors ==
    {Err("ThrottlingException"), Err("AccessDeniedException"),
     Err("ModelTimeoutException")}

\* The headers both responses carry.
CorsHeaders ==
    [allowOrigin |-> "*", allowHeaders |-> "*"]

\* handler(event) up to its await: the destructuring of
\* event.queryStringParameters throws a TypeError when that is null or
\* undefined, outside the try block, which rejects the promise the async
\* function returned; otherwise invokeModel is called with the prompt.
handlerCall(event) ==
    LET queryStringParameters == event.queryStringParameters IN
    IF queryStringParameters.kind # "object"
    THEN [phase |-> "rejected", event |-> event,
          result |-> Rejected(Err("TypeError"))]
    ELSE LET userPrompt ==
                 IF "userPrompt" \in DOMAIN queryStringParameters.params
                 THEN queryStringParameters.params.userPrompt ELSE "undefined"
         IN  [phase |-> "awaiting", event |-> event,
              request |-> [modelId |-> "anthropic.claude-instant-v1",
                           contentType |-> "application/json",
                           human |-> userPrompt],
              result |-> Pending]

\* handler(event) from its await on: invokeModel rejected with `error`, or
\* resolved with a response whose body is `body`. JSON.parse throws inside the
\* try block when the body is not JSON.
handlerResume(awaiting, error, body) ==
    LET caught == IF error.kind # "undefined" THEN error
                  ELSE IF ~body.json THEN Err("SyntaxError") ELSE Undefined
    IN  [phase |-> "returned", event |-> awaiting.event,
         outcome |-> [error |-> error, body |-> body],
         result |-> Resolved(
             IF caught.kind # "undefined"
             THEN [statusCode |-> 500, headers |-> CorsHeaders, body |-> caught]
             ELSE [statusCode |-> 200, headers |-> CorsHeaders,
                   body |-> IF "completion" \in DOMAIN body.value
                            THEN Plain(body.value.completion) ELSE Undefined])]

\* The function is deployed and has not been invoked.
InitHandler ==
    /\ AtRest
    /\ pure = [phase |-> "deployed", invocation |-> 0]

\* The platform invokes handler(event); an invocation starts when the one
\* before it has settled.
Invoke(event) ==
    /\ pure.phase \in {"deployed", "returned", "rejected"}
    /\ pure.invocation < MaxInvocations
    /\ pure' = handlerCall(event) @@ [invocation |-> pure.invocation + 1]
    /\ UNCHANGED adapter

\* invokeModel resolves with a response whose body is `body`.
InvokeModelResolves(body) ==
    /\ pure.phase = "awaiting"
    /\ pure' = handlerResume(pure, Undefined, body) @@
                [invocation |-> pure.invocation]
    /\ UNCHANGED adapter

\* invokeModel rejects with `error`.
InvokeModelRejects(error) ==
    /\ pure.phase = "awaiting"
    /\ pure' = handlerResume(pure, error, JsonBody(<<>>)) @@
                [invocation |-> pure.invocation]
    /\ UNCHANGED adapter

NextHandler ==
    \/ \E event \in Events : Invoke(event)
    \/ \E body \in ModelBodies : InvokeModelResolves(body)
    \/ \E error \in ModelErrors : InvokeModelRejects(error)

SpecHandler == InitHandler /\ [][NextHandler]_vars

NextDecode == ApplyDecodeResponse \/ SettleWithResponse

SpecDecode == InitDecode /\ [][NextDecode]_vars

\* ------------------------------------------------------------------ claims

\* The positions in `steps` that emit `event`, and those that call `what`.
Emits(steps, event) ==
    {k \in 1..Len(steps) : steps[k].op = "emit" /\ steps[k].what = event}
Calls(steps, what) ==
    {k \in 1..Len(steps) : steps[k].op = "call" /\ steps[k].what = what}

\* The requests a step added to the calls in flight.
Started == BagToSet(inflight' (-) inflight)

\* C1 as stated: every endVoiceRecording call made while recording reads the
\* buffer, emits one recordEnd and then starts exactly one remote call, all
\* with the recording flag already inactive.
C1_Original ==
    (call.op = "endVoiceRecording" /\ call.ret # Resolved(Undefined)) =>
        /\ Len(call.steps) = 3
        /\ call.steps[1].op = "read" /\ ~call.steps[1].recording
        /\ Emits(call.steps, "recordEnd") = {2}
        /\ Calls(call.steps, "recognizeUtterance") = {3}
        /\ ~call.steps[3].recording

\* C1 amended: an endVoiceRecording call made while recording first makes the
\* flag inactive, then reads the buffer, then emits exactly one recordEnd,
\* and only then starts exactly one remote call, except that a recording
\* that holds samples captured at a rate below the target rate makes it throw
\* after recordEnd and start no remote call. No step reads the buffer or
\* starts the audio call while the flag is still active.
C1_StopOrder ==
    [][(call'.op = "endVoiceRecording" /\ recording) =>
          LET steps == call'.steps IN
          /\ ~recording'
          /\ Len(steps) >= 2
          /\ steps[1].op = "read" /\ steps[1].what = "recBuffer"
          /\ Emits(steps, "recordEnd") = {2}
          /\ \A k \in 1..Len(steps) : ~steps[k].recording
          /\ IF sampleRate.val < LEX_DEFAULTS_SampleRate.val /\ recLength > 0
             THEN /\ Len(steps) = 2
                  /\ call'.ret.kind = "throw"
                  /\ inflight' = inflight
             ELSE /\ Len(steps) = 3
                  /\ Calls(steps, "recognizeUtterance") = {3}
                  /\ call'.ret = Pending
                  /\ BagCardinality(inflight') = BagCardinality(inflight) + 1
                  /\ \A r \in Started :
                        r.params.requestContentType = "audio/x-l16; rate=16000"
      ]_vars

\* C1 witness: a recording with buffered chunks was stopped and submitted.
C1_Witness ==
    /\ call.op = "endVoiceRecording"
    /\ Len(call.steps) = 3
    /\ recLength > 0

\* C2: endVoiceRecording called while not recording resolves immediately,
\* emits nothing, starts no remote call and leaves the buffer, the length and
\* the flags unchanged.
C2_StopWhenIdle ==
    [][(call'.op = "endVoiceRecording" /\ ~recording) =>
          /\ call'.ret = Resolved(Undefined)
          /\ call'.steps = <<>>
          /\ UNCHANGED <<recBuffer, recLength, micReady, recording, inflight>>
      ]_vars

\* C2 witness: endVoiceRecording was a no-op on an adapter that still holds
\* the chunks of a recording stopped before.
C2_Witness ==
    /\ call.op = "endVoiceRecording"
    /\ call.ret = Resolved(Undefined)
    /\ recLength > 0

\* C3 as stated: when the remote call fails, exactly one error event carrying
\* the error is emitted, no lexResponseReady is emitted and the promise is
\* rejected.
C3_ErrorEvent ==
    (call.op = "recognizeUtterance.callback" /\ call.arg.error # Undefined) =>
        /\ Cardinality({k \in 1..Len(call.steps) :
                            /\ call.steps[k].op = "emit"
                            /\ call.steps[k].data = call.arg.error}) = 1
        /\ Emits(call.steps, "lexResponseReady") = {}
        /\ call.ret.kind = "rejected"

\* C4 as stated: when the remote call succeeds with a well-formed response,
\* one lexResponseReady carrying the decoded response is emitted and the
\* promise resolves to that same decoded response.
C4_ResolvesDecoded ==
    (/\ call.op = "recognizeUtterance.callback"
     /\ call.arg.error = Undefined
     /\ decodeResponse(call.arg.data).kind = "return") =>
        /\ Cardinality(Emits(call.steps, "lexResponseReady")) = 1
        /\ \A k \in Emits(call.steps, "lexResponseReady") :
              call.steps[k].data = decodeResponse(call.arg.data).value
        /\ call.ret = Resolved(decodeResponse(call.arg.data).value)

C6_LengthIsSum == recLength = SumLen(recBuffer)

\* C6 witness: a second recording session holds two chunks.
C6_Witness ==
    /\ recording
    /\ Len(recBuffer) = 2
    /\ BagCardinality(inflight) > 0

\* C7: beginVoiceRecording with the microphone ready empties the buffer,
\* resets the count, makes recording active and emits one recordBegin;
\* before the microphone is ready it changes nothing and emits nothing.
C7_Begin ==
    [][call'.op = "beginVoiceRecording" =>
          IF micReady
          THEN /\ recBuffer' = <<>>
               /\ recLength' = 0
               /\ recording'
               /\ micReady'
               /\ Len(call'.steps) = 1
               /\ Emits(call'.steps, "recordBegin") = {1}
          ELSE /\ call'.steps = <<>>
               /\ UNCHANGED <<micReady, recording, recLength, recBuffer, inflight>>
      ]_vars

\* C7 witness: beginVoiceRecording started a session after an earlier one
\* was stopped and submitted.
C7_Witness ==
    /\ call.op = "beginVoiceRecording"
    /\ recording
    /\ recBuffer = <<>>
    /\ \E r \in BagToSet(inflight) : r.audio # Undefined /\ Len(r.audio.value) > 0

\* C8: the samples endVoiceRecording submits are the chunks the callback was
\* handed between the last beginVoiceRecording and this stop, in order; a
\* chunk handed over while recording is inactive is not appended.
C8_SubmittedIsSession ==
    [][/\ (call'.op = "endVoiceRecording" /\ recording) =>
              /\ call'.steps[1].data = Arr(Flatten(session.chunks))
              /\ \A r \in Started : r.audio = Arr(Flatten(session.chunks))
       /\ (call'.op = "onaudioprocess" /\ ~recording) =>
              UNCHANGED <<recBuffer, recLength>>
      ]_vars

\* C8 witness: a submission holds two different chunks in delivery order.
C8_Witness ==
    /\ call.op = "endVoiceRecording"
    /\ \E r \in BagToSet(inflight) : r.audio = Arr(Chunk(1) \o Chunk(-1))

\* C9: when getUserMedia fails, enableMicInput changes no field (a
\* microphone that was not ready stays not ready), emits no micReady and
\* rejects with the platform's error itself.
C9_MicFailure ==
    [][call'.op = "enableMicInput.fail" =>
          /\ UNCHANGED <<micReady, recording, recLength, recBuffer, nodes, inflight>>
          /\ call'.steps = <<>>
          /\ call'.ret = Rejected(call'.arg)
      ]_vars

\* C9 witness: acquisition failed on an adapter whose microphone is not ready.
C9_Witness ==
    /\ call.op = "enableMicInput.fail"
    /\ call.arg = Err("Permission dismissed")
    /\ ~micReady

\* C10 as stated: micReady is emitted with the adapter already mic-ready, so
\* a beginVoiceRecording made from a micReady subscriber starts recording
\* and emits recordBegin.
C10_ReadyWhenNotified ==
    call.op = "enableMicInput.resume" =>
        /\ \A k \in Emits(call.steps, "micReady") : call.steps[k].micReady
        /\ call.arg.begins =>
               /\ recording
               /\ Emits(call.steps, "recordBegin") # {}


\* C11: decodeResponse never mutates its input: after the call the raw
\* response object holds the same fields with the same encoded values as
\* before it, whether the call returned or threw.
C11_InputUntouched ==
    pure.phase = "decoded" => pure.lexResponse = pure.input

\* C11 witness: a response with all three encoded fields was decoded into a
\* different object.
C11_Witness ==
    /\ pure.phase = "decoded"
    /\ EncodedFields \subseteq DOMAIN pure.input
    /\ pure.result.kind = "return"
    /\ pure.result.value # pure.input

\* The parsed form of a well-formed encoded string.
Parsed(encodedString) == [kind |-> "json", json |-> encodedString.json]

\* C12: for each of sessionState, inputTranscript and messages: absent from
\* the raw response, it is not a key of the decoded response; present, it is
\* replaced by its parsed form; every other field is copied unchanged.
C12_FieldByField ==
    pure.phase = "decoded" /\ pure.result.kind = "return" =>
        LET decoded == pure.result.value IN
        /\ \A f \in EncodedFields :
              IF f \in DOMAIN pure.input
              THEN f \in DOMAIN decoded /\ decoded[f] = Parsed(pure.input[f])
              ELSE f \notin DOMAIN decoded
        /\ \A f \in DOMAIN pure.input \ EncodedFields :
              f \in DOMAIN decoded /\ decoded[f] = pure.input[f]

\* Whether decoding the raw response throws: sessionState is decoded whenever
\* it is a key, inputTranscript and messages when they are non-empty.
Malformed(lexResponse) ==
    \/ "sessionState" \in DOMAIN lexResponse /\ ~lexResponse["sessionState"].valid
    \/ \E f \in {"inputTranscript", "messages"} \cap DOMAIN lexResponse :
          lexResponse[f] # Plain("") /\ ~lexResponse[f].valid

\* C13: when the remote call succeeds but a field of the response is
\* malformed, the promise of the submission is rejected and lexResponseReady
\* is not emitted.
C13_DecodeFailureRejects ==
    pure.phase = "settled" /\ Malformed(pure.input) =>
        /\ pure.ret.kind = "rejected"
        /\ Emits(pure.steps, "lexResponseReady") = {}

\* C13 witness: the promise chain ran on a response whose messages field alone
\* is malformed, and the promise was rejected.
C13_Witness ==
    /\ pure.phase = "settled"
    /\ pure.input = RawResponse([sessionState |-> "encoded",
                                 inputTranscript |-> "encoded",
                                 messages |-> "malformed"])
    /\ pure.ret.kind = "rejected"

\* C14 as stated: for every sample sequence, the empty one included,
\* downsampleAudio with a source rate below the target throws and returns
\* nothing; an audio submission captured below the 16000 target starts no
\* remote call.
C14_Original ==
    /\ pure.phase = "downsampled"
       /\ pure.sourceSampleRate.val < pure.targetSampleRate.val
       => pure.result.kind = "throw"
    /\ pure.phase = "submitted"
       /\ pure.sourceSampleRate.val < LEX_DEFAULTS_SampleRate.val
       => pure.sent = <<>> /\ pure.ret.kind = "throw"

\* C14: for every sample sequence that holds at least one sample,
\* downsampleAudio with a source rate below the target throws and returns
\* nothing, and an audio submission of it captured below the 16000 target
\* throws and starts no remote call; for the empty sequence downsampleAudio
\* returns undefined and throws nothing, whatever the rates.
C14_LowRateFails ==
    /\ pure.phase = "downsampled" =>
         IF Len(pure.buffer.value) = 0 THEN pure.result = Return(Undefined)
         ELSE pure.sourceSampleRate.val < pure.targetSampleRate.val
              => pure.result.kind = "throw"
    /\ pure.phase = "submitted"
       /\ Len(pure.buffer.value) > 0
       /\ pure.sourceSampleRate.val < LEX_DEFAULTS_SampleRate.val
       => pure.sent = <<>> /\ pure.ret.kind = "throw"

\* C14 witness: a submission of samples captured at 8000 threw.
C14_Witness ==
    /\ pure.phase = "submitted"
    /\ Len(pure.buffer.value) > 0
    /\ pure.sourceSampleRate = Num(8000)
    /\ pure.ret.kind = "throw"

\* C15 as stated: for every sample sequence, the empty one included,
\* downsampleAudio with equal source and target rates (the adapter's 16000
\* against "16000" included) returns the input sequence.
C15_Original ==
    pure.phase = "downsampled"
    /\ pure.sourceSampleRate.val = pure.targetSampleRate.val
    => pure.result = Return(pure.buffer)

\* C15: for every sample sequence that holds at least one sample,
\* downsampleAudio with equal source and target rates (the adapter's 16000
\* against "16000" included) returns a sequence of the same length holding
\* the same sample values; for the empty sequence it returns undefined.
C15_EqualRatesIdentity ==
    pure.phase = "downsampled"
    /\ pure.sourceSampleRate.val = pure.targetSampleRate.val
    => IF Len(pure.buffer.value) = 0 THEN pure.result = Return(Undefined)
       ELSE /\ pure.result.kind = "return"
            /\ Len(pure.result.value.value) = Len(pure.buffer.value)
            /\ \A i \in 1..Len(pure.buffer.value) :
                  pure.result.value.value[i] = pure.buffer.value[i]

\* C15 witness: the adapter's rates, 16000 against "16000", on a sequence of
\* MaxSamples samples that are not all alike.
C15_Witness ==
    /\ pure.phase = "downsampled"
    /\ pure.sourceSampleRate = Num(16000)
    /\ pure.targetSampleRate = LEX_DEFAULTS_SampleRate
    /\ Len(pure.buffer.value) = MaxSamples
    /\ pure.buffer.value[1] # pure.buffer.value[2]
    /\ pure.result.kind = "return"

\* The smallest integer that is at least a/b (a >= 0, b > 0).
Ceil(a, b) == (a + b - 1) \div b

RECURSIVE Total(_, _, _)
\* The sum of the samples at the 0-based indices from .. to - 1.
Total(samples, from, to) ==
    IF from >= to THEN 0 ELSE samples[to][1] + Total(samples, from, to - 1)

\* The mean of the samples at the 0-based indices from .. to - 1.
Mean(samples, from, to) == Sample(Total(samples, from, to), to - from)

\* The input is not empty and the source rate is k times the target, k >= 2.
Multiple(k) ==
    /\ pure.phase = "downsampled"
    /\ Len(pure.buffer.value) > 0
    /\ pure.sourceSampleRate.val = k * pure.targetSampleRate.val

\* C16 as stated: for a non-empty input of n samples and a source rate k >= 2
\* times the target, downsampleAudio returns ceil(n/k) samples and output j
\* is the mean of the source samples of the k-sample window starting at j*k.
C16_Original ==
    \A k \in 2..4 : Multiple(k) =>
        LET n == Len(pure.buffer.value)
            out == pure.result.value.value
        IN  /\ pure.result.kind = "return"
            /\ Len(out) = Ceil(n, k)
            /\ \A j \in 0..(Len(out) - 1) :
                  out[j + 1] = Mean(pure.buffer.value, j * k, Min(j * k + k, n))

\* C16: for a non-empty input of n samples and a source rate k >= 2 times the
\* target, downsampleAudio returns round(n/k) samples (a half rounds up), and
\* output j is the mean of the source samples at the indices j*k up to but
\* not including min(j*k + k, n).
C16_WindowMeans ==
    \A k \in 2..4 : Multiple(k) =>
        LET n == Len(pure.buffer.value)
            out == pure.result.value.value
        IN  /\ pure.result.kind = "return"
            /\ Len(out) = Round(n, k)
            /\ \A j \in 0..(Len(out) - 1) :
                  /\ j * k < n
                  /\ out[j + 1] = Mean(pure.buffer.value, j * k, Min(j * k + k, n))

\* C16 witness: [1, 2, 3, 4] at twice the target rate gave [1.5, 3.5].
C16_Witness ==
    /\ Multiple(2)
    /\ pure.buffer.value = <<Sample(1, 1), Sample(2, 1), Sample(3, 1), Sample(4, 1)>>
    /\ pure.result = Return(Arr(<<Sample(3, 2), Sample(7, 2)>>))

\* The little-endian unsigned 32-bit, unsigned 16-bit and signed 16-bit
\* integers at a byte offset.
U16(bytes, offset) == bytes[offset + 1] + 256 * bytes[offset + 2]
U32(bytes, offset) == U16(bytes, offset) + 65536 * U16(bytes, offset + 2)
S16(bytes, offset) ==
    IF U16(bytes, offset) >= 32768 THEN U16(bytes, offset) - 65536
    ELSE U16(bytes, offset)

\* The container was written for n samples.
SampleCount == Len(pure.buffer.value)

\* C17: encodeWAV is bit-exact with the standard container: the RIFF chunk
\* size at offset 4 is the total length minus 8 (36 + 2n), one channel, 16
\* bits per sample, block align 2, byte rate twice the sample rate, all
\* little-endian.
C17_StandardContainer ==
    pure.phase = "encoded" =>
        /\ U32(pure.bytes, 4) = Len(pure.bytes) - 8
        /\ U32(pure.bytes, 4) = 36 + 2 * SampleCount
        /\ U16(pure.bytes, 22) = 1
        /\ U16(pure.bytes, 34) = 16
        /\ U16(pure.bytes, 32) = 2
        /\ U32(pure.bytes, 28) = 2 * pure.targetSampleRate.val
        /\ U32(pure.bytes, 28) = 2 * U32(pure.bytes, 24)

\* C18: encodeWAV produces 44 + 2n bytes whose header declares a chunk size
\* of 32 + 2n and a data length of 2n; for [0, 0.5, -0.5, 1, -1] the chunk
\* size is 32 + 10 and the payload decodes to
\* [0, 16383, -16384, 32767, -32768].
C18_AsWritten ==
    pure.phase = "encoded" =>
        /\ Len(pure.bytes) = 44 + 2 * SampleCount
        /\ U32(pure.bytes, 4) = 32 + 2 * SampleCount
        /\ U32(pure.bytes, 40) = 2 * SampleCount
        /\ pure.buffer.value = EncodeScenario =>
              /\ U32(pure.bytes, 4) = 32 + 10
              /\ [i \in 1..5 |-> S16(pure.bytes, 44 + 2 * (i - 1))]
                 = <<0, 16383, -16384, 32767, -32768>>

\* C18 witness: the five samples of the scenario were encoded.
C18_Witness ==
    /\ pure.phase = "encoded"
    /\ pure.buffer.value = EncodeScenario
    /\ Len(pure.bytes) = 54

\* Payload sample i (from 1) of the container, and input sample i as the
\* rational num/den.
Pcm(i) == S16(pure.bytes, 44 + 2 * (i - 1))
Numer(i) == pure.buffer.value[i][1]
Denom(i) == pure.buffer.value[i][2]

\* The absolute value of an integer.
Abs(v) == IF v < 0 THEN -v ELSE v

\* Range and scaling of payload sample i: a 16-bit value; -32768 for inputs
\* of -1 or less, 32767 for inputs of 1 or more, 0 for 0, and in between the
\* input times 0x8000 (negative) or 0x7FFF (non-negative) cut to an integer.
Scaled(i) ==
    /\ Pcm(i) \in -32768..32767
    /\ Denom(i) > 0 =>
          /\ Numer(i) <= -Denom(i) => Pcm(i) = -32768
          /\ Numer(i) >= Denom(i) => Pcm(i) = 32767
          /\ Numer(i) = 0 => Pcm(i) = 0
          /\ Numer(i) < 0 /\ Numer(i) > -Denom(i) =>
                Pcm(i) = -((-Numer(i) * 32768) \div Denom(i))
          /\ Numer(i) >= 0 /\ Numer(i) < Denom(i) =>
                Pcm(i) = (Numer(i) * 32767) \div Denom(i)

\* Input sample i lies in [-1, 1].
InRange(i) == Denom(i) > 0 /\ Numer(i) >= -Denom(i) /\ Numer(i) <= Denom(i)

\* C19 as stated: every payload sample is a 16-bit value scaled as above, and
\* decoding it (dividing by the scale factor it was multiplied with) recovers
\* every in-range sample within 1/32768.
C19_Original ==
    pure.phase = "encoded" =>
        \A i \in 1..SampleCount :
            /\ Scaled(i)
            /\ InRange(i) =>
                  IF Numer(i) < 0
                  THEN Abs(Numer(i) * 32768 - Pcm(i) * Denom(i)) <= Denom(i)
                  ELSE Abs(Numer(i) * 32767 - Pcm(i) * Denom(i)) * 32768
                       <= Denom(i) * 32767

\* C19: every payload sample is a 16-bit value scaled as above, and decoding
\* it (dividing by the scale factor it was multiplied with) recovers every
\* in-range sample within less than 1/32768 when it is negative and less
\* than 1/32767 when it is not.
C19_Quantization ==
    pure.phase = "encoded" =>
        \A i \in 1..SampleCount :
            /\ Scaled(i)
            /\ InRange(i) =>
                  IF Numer(i) < 0
                  THEN Abs(Numer(i) * 32768 - Pcm(i) * Denom(i)) < Denom(i)
                  ELSE Abs(Numer(i) * 32767 - Pcm(i) * Denom(i)) < Denom(i)

\* C19 witness: a sequence with a sample above 1 and a sample below -1 was
\* encoded.
C19_Witness ==
    /\ pure.phase = "encoded"
    /\ SampleCount = 2
    /\ pure.buffer.value[1] = Sample(2, 1)
    /\ pure.buffer.value[2] = Sample(-2, 1)
    /\ Pcm(1) = 32767
    /\ Pcm(2) = -32768

\* The four identifiers the construction fixes: the bot and alias given, the
\* locale given or "en_US", the session given or the one generated.
Identifiers ==
    [botId |-> options.botId, botAliasId |-> options.botAliasId,
     localeId |-> IF "localeId" \in DOMAIN options THEN options.localeId
                  ELSE "en_US",
     sessionId |-> IF "sessionId" \in DOMAIN options THEN options.sessionId
                   ELSE createId]

C21_AlwaysResponds ==
    /\ pure.phase # "rejected"
    /\ pure.phase = "returned" =>
          /\ pure.result.kind = "resolved"
          /\ IF pure.outcome.error = Undefined /\ pure.outcome.body.json
             THEN /\ pure.result.value.statusCode = 200
                  /\ "completion" \in DOMAIN pure.outcome.body.value =>
                        pure.result.value.body
                            = Plain(pure.outcome.body.value.completion)
             ELSE pure.result.value.statusCode = 500

\* C22: with the microphone ready, recordBegin and recordEnd alternate,
\* starting with recordBegin: a handler emits recordBegin only when the last
\* of the two events was not a recordBegin (no recording is open), and emits
\* recordEnd only for an open recording, together with one audio submission.
C22_Alternation ==
    [][/\ Emits(call'.steps, "recordBegin") # {} =>
             /\ ~recording
             /\ Cardinality(Emits(call'.steps, "recordBegin")) = 1
       /\ Emits(call'.steps, "recordEnd") # {} =>
             /\ recording
             /\ Cardinality(Emits(call'.steps, "recordEnd")) = 1
             /\ Cardinality(Started) = 1]_vars

\* C23: every audio payload handed to the remote call is a well-formed
\* encoded container of 44 + 2m bytes for some m >= 0, a recording stopped
\* before any chunk was delivered included.
C23_WellFormedPayload ==
    \A request \in BagToSet(inflight) :
        request.params.requestContentType = "audio/x-l16; rate=16000" =>
            LET blob == request.params.inputStream IN
            /\ blob.kind = "blob"
            /\ blob.size >= 44
            /\ (blob.size - 44) % 2 = 0
            /\ IF blob.view = Undefined THEN FALSE
               ELSE /\ Len(ViewBytes(blob.view)) = blob.size
                    /\ blob.view.dataSize = blob.size - 44

\* C24: after any number of successful enableMicInput calls, each block the
\* device delivers during a recording is appended to the sample buffer once:
\* no two chunks of the buffer, and no two chunks of a submitted recording,
\* are the same block.
C24_NoDuplicateChunks ==
    /\ \A i, j \in 1..Len(recBuffer) : i # j => recBuffer[i] # recBuffer[j]
    /\ \A request \in BagToSet(inflight) :
          request.audio # Undefined =>
              LET samples == request.audio.value
                  chunks == Len(samples) \div ChunkLen
              IN  \A i, j \in 0..(chunks - 1) :
                      i # j => samples[i * ChunkLen + 1] # samples[j * ChunkLen + 1]

\* C25: in the demo, the "processing" state a recordEnd puts the message
\* container into is removed once the remote call of the recording
\* completes, with a response or with an error: when the callback of an
\* audio request has run, the container is not in the "processing" state.
C25_ProcessingRemoved ==
    /\ call.op = "recognizeUtterance.callback"
    /\ call.arg.requestContentType = "audio/x-l16; rate=16000"
    => "processing" \notin classList

\* The windows of the call under test, for rates p/q.
Windows ==
    LET n == Len(pure.buffer.value)
        p == pure.sourceSampleRate.val
        q == pure.targetSampleRate.val
    IN  DownsampleWindows(n, p, q, Round(n * q, p), 0, 0, <<>>)

\* C26: for a non-empty input of n samples and a rate ratio r above 1, each
\* of the round(n / r) outputs of downsampleAudio is the mean of a non-empty
\* window of source samples (its count is never 0), and the windows of
\* successive outputs are disjoint and in increasing index order.
C26_Windows ==
    pure.phase = "downsampled"
    /\ Len(pure.buffer.value) > 0
    /\ pure.sourceSampleRate.val > pure.targetSampleRate.val
    => LET n == Len(pure.buffer.value)
           out == pure.result.value.value
       IN  /\ pure.result.kind = "return"
           /\ Len(out) = Round(n * pure.targetSampleRate.val,
                               pure.sourceSampleRate.val)
           /\ Len(Windows) = Len(out)
           /\ \A j \in 1..Len(out) :
                 /\ out[j][2] > 0
                 /\ 0 <= Windows[j].from
                 /\ Windows[j].from < Windows[j].to
                 /\ Windows[j].to <= n
                 /\ out[j] = Mean(pure.buffer.value, Windows[j].from, Windows[j].to)
                 /\ j > 1 => Windows[j - 1].to <= Windows[j].from

\* C26 witness: a ratio that is not an integer gave three outputs, the middle
\* one over a window of two samples.
C26_Witness ==
    /\ pure.phase = "downsampled"
    /\ pure.sourceSampleRate = Num(22050)
    /\ Len(pure.buffer.value) = MaxSamples
    /\ pure.result.kind = "return"
    /\ Len(pure.result.value.value) >= 3
    /\ pure.result.value.value[2][2] = 2

=========================================================================
